---------------------------- MODULE Spec2Model ----------------------------
(***************************************************************************)
(* Model of the Emby Prometheus exporters (src/exporters/*.py).            *)
(*                                                                         *)
(* Spec     the polling loop of emby_livetv_ultimate.py: main, the six     *)
(*          collectors of collect_all_metrics in their order, the except   *)
(*          handler and the interval sleep, up to the time horizon MaxTime.*)
(* LiveSpec the same loop running forever (weak fairness of the loop).     *)
(*          Time is tracked up to LiveMaxTime; after it the clock is no    *)
(*          longer advanced and the server reports no live-TV session, so  *)
(*          that the state space stays finite.                             *)
(* ReqSpec  single calls of _make_request in each of the four scripts,     *)
(*          with their latency observations and error counters.            *)
(* EpgSpec  the days-available probe of collect_epg, request by request.   *)
(* StartSpec main of each of the four scripts, from the credential check   *)
(*          to the first API calls.                                        *)
(* SessSpec collect_sessions of the fixed, debug and ultimate scripts on   *)
(*          sessions of every shape: with or without PlayState, Bandwidth, *)
(*          TranscodingInfo and Height.                                    *)
(* ScrapeSpec collect_sessions of emby_livetv_ultimate.py with its "Set    *)
(*          all metrics" block statement by statement, and the thread of   *)
(*          the exposition server, which reads the metrics at any moment.  *)
(* ParseSpec parse_emby_datetime of the fixed, livetv and ultimate scripts *)
(*          on one argument, under both behaviours of fromisoformat.       *)
(* TunerSpec collect_tuners of emby_livetv_ultimate.py, cycle after cycle, *)
(*          on tuner lists of every shape.                                 *)
(*                                                                         *)
(* Gauges and counters are modelled by their values; a labelled metric is  *)
(* a function whose domain is the set of label combinations created so     *)
(* far.  Metrics no property refers to are left out.                       *)
(***************************************************************************)
EXTENDS Integers, Sequences, FiniteSets, TLC

VARIABLES
    pc,                     \* position of the main thread
    now,                    \* time.time(), in seconds since the first cycle
    variant,                \* which exporter script is running
    sessions,               \* local `sessions` of collect_sessions
    server_up,              \* Gauge emby_up
    streams_active,         \* Gauge emby_livetv_streams_active
    transcoding_active,     \* Gauge emby_livetv_transcoding_active
    stream_bandwidth_total, \* Gauge emby_livetv_bandwidth_total_mbps
    stream_bitrate,         \* Gauge emby_livetv_stream_bitrate_kbps{user,channel_name,session_id}
    user_watch_time,        \* Counter emby_livetv_user_watch_time_seconds_total{user,channel_name}
    user_channel_switches,  \* Counter emby_livetv_channel_switches_total{user}
    channel_watch_start,    \* self.channel_watch_start: session_id -> (user, channel, start_time)
    last_channel_switch,    \* self.last_channel_switch: user -> last channel
    api_latency_count,      \* number of latency observations per endpoint
    api_error_count,        \* error counter per label
    last_call,              \* the last call of _make_request and what it returned
    executed,               \* history: collectors called in the current cycle
    raised,                 \* history: a collector raised in the current cycle
    got_malformed,          \* history: a response of the current cycle was malformed
    prev_obs,               \* history: live-TV sessions observed in the previous cycle
    cur_obs,                \* history: live-TV sessions observed in the current cycle
    epg_programs,           \* the lookahead days for which the server has programs
    epg_day,                \* loop variable `days` of the probe in collect_epg
    epg_requests,           \* history: the probe's requests, day -> what came back
    epg_days_available,     \* Gauge emby_livetv_epg_days
    in_progress,            \* history: calls of collect_all_metrics begun and not returned
    api_key,                \* EMBY_API_KEY
    exit_code,              \* the status of sys.exit, once pc = "exited"
    http_server_started,    \* start_http_server(EXPORTER_PORT) was called
    exporter_created,       \* the exporter instance exists
    locals,                 \* livetv_stream_count, total_bandwidth_mbps, transcoding_count
    completed,              \* history: the gauges as the last completed cycle left them
    scraped,                \* history: what the last scrape of /metrics returned
    peak_streams_24h,       \* self.peak_streams_24h
    peak_concurrent_streams,    \* Gauge emby_livetv_peak_concurrent_streams
    channel_popularity_scores,  \* self.channel_popularity_scores: channel -> score
    popular_channels,       \* Gauge emby_livetv_channel_popularity{channel_name}
    streams_by_quality,     \* Gauge emby_livetv_streams_by_quality{quality}
    stream_counts,          \* history: every livetv_stream_count computed so far
    session_bandwidth,      \* Gauge emby_session_bandwidth_bytes{session_id,user,...}
    streams_by_method,      \* Gauge emby_livetv_streams_by_method{method}
    hourly_users,           \* self.hourly_users: hour -> set of users
    prime_time_usage,       \* Gauge emby_livetv_prime_time_usage
    tuners_total,           \* Gauge emby_livetv_tuners_total
    tuners_available,       \* Gauge emby_livetv_tuners_available
    tuners_in_use,          \* Gauge emby_livetv_tuners_in_use
    tuner_utilization,      \* Gauge emby_livetv_tuner_utilization_percent
    tuner_status,           \* Gauge emby_livetv_tuner_status{tuner_id,...,channel}
    tuners_seen,            \* history: the tuners the last collect_tuners looped over
    date_string,            \* the argument of parse_emby_datetime
    python,                 \* the interpreter's datetime.fromisoformat
    parsed                  \* what parse_emby_datetime returned or raised

vars == << pc, now, variant, sessions, server_up, streams_active,
           transcoding_active, stream_bandwidth_total, stream_bitrate,
           user_watch_time, user_channel_switches, channel_watch_start,
           last_channel_switch, api_latency_count, api_error_count, last_call,
           executed, raised, got_malformed, prev_obs, cur_obs,
           epg_programs, epg_day, epg_requests, epg_days_available,
           in_progress, api_key, exit_code, http_server_started,
           exporter_created, locals, completed, scraped, peak_streams_24h,
           peak_concurrent_streams, channel_popularity_scores,
           popular_channels, streams_by_quality, stream_counts,
           session_bandwidth, streams_by_method, hourly_users,
           prime_time_usage, tuners_total, tuners_available, tuners_in_use,
           tuner_utilization, tuner_status, tuners_seen, date_string, python,
           parsed >>

-----------------------------------------------------------------------------
(* Program constants and bounds *)

SCRAPE_INTERVAL == 30

\* Spec: no cycle starts after this time (three cycles).
MaxTime == 60
\* LiveSpec: time is tracked and live-TV sessions are reported up to this time.
LiveMaxTime == 30
\* A cycle's own duration (its HTTP calls) delays the next cycle by 0..MaxJitter.
MaxJitter == 1
\* ReqSpec: number of calls of _make_request.
MaxCalls == 3

Users == {"alice", "bob"}
Channels == {"News24", "Sports1"}
SessionIds == {"s1", "s2"}
Endpoints == {"/System/Info", "/Sessions"}
Variants == {"ultimate", "livetv", "fixed", "debug"}
Collectors == {"server_info", "channels", "sessions", "tuners", "recordings", "epg"}

\* What the server answers to one GET: 2xx with a well-formed payload, 404,
\* another non-2xx status, a timeout or connection failure, or 2xx with JSON of
\* the wrong shape (an array where an object is expected and vice versa).
Responses == {"ok", "notfound", "httperror", "transport", "malformed"}

\* The clock value after the horizon of LiveSpec.
Later == MaxTime + LiveMaxTime + SCRAPE_INTERVAL

-----------------------------------------------------------------------------
(* Helpers for labelled metrics and dicts *)

Lookup(f, k) == IF k \in DOMAIN f THEN f[k] ELSE 0

Put(f, k, v) == [x \in (DOMAIN f) \cup {k} |-> IF x = k THEN v ELSE f[x]]

Empty == << >>


-----------------------------------------------------------------------------
(* _make_request *)

\* ultimate, livetv: `if response.status_code == 404: return None` comes before
\* raise_for_status(); fixed and debug have no such test.
Returns404Early(v) == v \in {"ultimate", "livetv"}

\* The call raises a RequestException (session.get for a transport failure,
\* raise_for_status for a non-2xx status not returned early) and the except
\* clause counts an error and returns None.
RequestFails(v, resp) ==
    \/ resp \in {"transport", "httperror"}
    \/ resp = "notfound" /\ ~Returns404Early(v)

\* Whether the call reaches its .observe(duration): ultimate, livetv and debug
\* observe right after session.get returned, fixed only after raise_for_status.
ObservesLatency(v, resp) ==
    IF v = "fixed" THEN ~RequestFails(v, resp) ELSE resp # "transport"

\* The label of the error counter: api_request_errors{endpoint} in livetv, fixed
\* and debug, stream_errors{error_type='api_error'} in ultimate.
ErrorLabel(v, endpoint) == IF v = "ultimate" THEN "api_error" ELSE endpoint

\* What _make_request returns: None, the parsed payload, or the parsed JSON of
\* the wrong shape.
MakeRequest(v, resp) ==
    [ value    |-> IF RequestFails(v, resp) \/ resp = "notfound" THEN "none"
                   ELSE IF resp = "malformed" THEN "bad" ELSE "payload",
      observed |-> ObservesLatency(v, resp),
      error    |-> RequestFails(v, resp) ]

-----------------------------------------------------------------------------
(* The /Sessions payload *)

\* The two clients of the server: alice's TV, which transcodes at 5 Mbit/s,
\* and a phone that streams directly (no TranscodingInfo).
Client(id) ==
    IF id = "s1"
    THEN [HasPlayState |-> TRUE,
          PlayMethod |-> "Transcode", HasTranscodingInfo |-> TRUE,
          Bitrate |-> 5000000, HasHeight |-> TRUE, Height |-> 1080]
    ELSE [HasPlayState |-> TRUE,
          PlayMethod |-> "DirectStream", HasTranscodingInfo |-> FALSE,
          Bitrate |-> 0, HasHeight |-> FALSE, Height |-> 0]

\* Who can be signed in on a client: the phone is used by alice or by bob.
ClientUsers(id) == IF id = "s1" THEN {"alice"} ELSE Users

\* The session of user u on a client that plays a movie (NowPlayingItem.Type =
\* 'Movie') or a live channel (Type = 'TvChannel', Name = the channel).
Session(id, u, type, name) ==
    [Id |-> id, UserName |-> u, Type |-> type, Name |-> name,
     HasPlayState |-> Client(id).HasPlayState,
     PlayMethod |-> Client(id).PlayMethod,
     HasTranscodingInfo |-> Client(id).HasTranscodingInfo,
     Bitrate |-> Client(id).Bitrate,
     HasHeight |-> Client(id).HasHeight,
     Height |-> Client(id).Height]

SessionsOf(id) ==
    {Session(id, "alice", "Movie", "Movie")}
    \cup {Session(id, u, "TvChannel", c) : u \in ClientUsers(id), c \in Channels}

\* Snapshots without live TV: the empty list, or a session playing a movie.
IdleSnapshots ==
    { << >> } \cup { <<Session(id, "alice", "Movie", "Movie")>> : id \in SessionIds }

\* The lists /Sessions returns: at most one session per id, in the order of ids.
Snapshots ==
    IdleSnapshots
    \cup UNION { {<<a>> : a \in SessionsOf(id)} : id \in SessionIds }
    \cup { <<a, b>> : a \in SessionsOf("s1"), b \in SessionsOf("s2") }

IsLiveTv(s) == s.Type = "TvChannel"

NoSessions == [kind |-> "none", items |-> << >>]


-----------------------------------------------------------------------------
(* collect_sessions of the ultimate exporter: one pass of the loop body *)

\* Lines 315-318: the user has a last channel and it differs from this one.
SwitchDetected(lcs, user, chan) ==
    user \in DOMAIN lcs /\ lcs[user] # chan

\* Lines 314-318: user_channel_switches after one session.
SwitchesAfter(ucs, lcs, user, chan) ==
    IF SwitchDetected(lcs, user, chan)
    THEN Put(ucs, user, Lookup(ucs, user) + 1)
    ELSE ucs

\* Mutant of WatchStartAfter: the anchor is restarted in every cycle.
WatchStartRestarted(cws, id, user, chan, t) ==
    Put(cws, id, [user |-> user, channel |-> chan, start_time |-> t])

\* Lines 322-323: channel_watch_start after one session; an entry is written
\* only for a session id that has none.
WatchStartAfter(cws, id, user, chan, t) ==
    IF id \notin DOMAIN cws
    THEN Put(cws, id, [user |-> user, channel |-> chan, start_time |-> t])
    ELSE cws

\* Mutant of WatchDuration: the time since the previous cycle.
WatchDurationOfOneCycle(t, start_time) == SCRAPE_INTERVAL

\* Line 327: watch_duration = time.time() - start_time.
WatchDuration(t, start_time) == t - start_time

\* Lines 322-328: user_watch_time after one session.
WatchTimeAfter(uwt, cws, id, user, chan, t) ==
    IF id \in DOMAIN cws /\ cws[id].channel = chan
    THEN Put(uwt, <<user, chan>>,
             Lookup(uwt, <<user, chan>>) + WatchDuration(t, cws[id].start_time))
    ELSE uwt

\* Lines 355-362: the per-session bitrate series, set only for a bitrate > 0.
BitrateAfter(sb, s) ==
    IF s.HasTranscodingInfo /\ s.Bitrate > 0
    THEN Put(sb, <<s.UserName, s.Name, s.Id>>, s.Bitrate \div 1000)
    ELSE sb

\* session.get('PlayState', {}).get('PlayMethod', 'Unknown')
PlayMethodOf(s) == IF s.HasPlayState THEN s.PlayMethod ELSE "Unknown"

\* Line 366: height = trans_info.get('Height', 0)
HeightOf(s) == IF s.HasHeight THEN s.Height ELSE 0

\* Lines 375-384: the bucket of a height.
QualityOf(height) ==
    IF height >= 2160 THEN "4K"
    ELSE IF height >= 1080 THEN "1080p"
    ELSE IF height >= 720 THEN "720p"
    ELSE IF height >= 480 THEN "480p"
    ELSE "SD"

\* Lines 350, 366-384: quality_counts after one session; a session is
\* classified only if it has TranscodingInfo and its height is > 0.
QualityAfter(qc, s) ==
    IF s.HasTranscodingInfo /\ HeightOf(s) > 0
    THEN Put(qc, QualityOf(HeightOf(s)), Lookup(qc, QualityOf(HeightOf(s))) + 1)
    ELSE qc

\* Line 345: method_counts[play_method] += 1
MethodCountsAfter(mc, s) ==
    Put(mc, PlayMethodOf(s), Lookup(mc, PlayMethodOf(s)) + 1)

\* The hour of the wall clock when the exporter made its first cycle.
StartHour == 20

\* Line 280: current_hour = datetime.now().hour
CurrentHour(t) == (StartHour + (t \div 3600)) % 24

\* Line 307: self.hourly_users[current_hour].add(user)
HourlyUsersAfter(hu, hour, user) ==
    Put(hu, hour, (IF hour \in DOMAIN hu THEN hu[hour] ELSE {}) \cup {user})

\* Mutant of PopularityAfter: a channel's score is 1 while it is watched.
PopularityIsWatched(pop, chan) == Put(pop, chan, 1)

\* Line 312: self.channel_popularity_scores[channel_name] += 1
PopularityAfter(pop, chan) == Put(pop, chan, Lookup(pop, chan) + 1)

\* The state the loop carries: the exporter's dicts, the labelled metrics and
\* the locals livetv_stream_count, transcoding_count, total_bandwidth_mbps,
\* quality_counts, method_counts, users_watching_set.
\* Bitrates are multiples of 1000000, so bitrate / 1000000 is exact.
LoopBody(st, s, t) ==
    IF ~IsLiveTv(s) THEN st
    ELSE [ count |-> st.count + 1,
           trans |-> st.trans + (IF PlayMethodOf(s) = "Transcode" THEN 1 ELSE 0),
           bw    |-> st.bw + (IF s.HasTranscodingInfo /\ s.Bitrate > 0
                              THEN s.Bitrate \div 1000000 ELSE 0),
           ucs   |-> SwitchesAfter(st.ucs, st.lcs, s.UserName, s.Name),
           lcs   |-> Put(st.lcs, s.UserName, s.Name),
           cws   |-> WatchStartAfter(st.cws, s.Id, s.UserName, s.Name, t),
           uwt   |-> WatchTimeAfter(st.uwt, st.cws, s.Id, s.UserName, s.Name, t),
           sb    |-> BitrateAfter(st.sb, s),
           qc    |-> QualityAfter(st.qc, s),
           pop   |-> PopularityAfter(st.pop, s.Name),
           mc    |-> MethodCountsAfter(st.mc, s),
           users |-> st.users \cup {s.UserName},
           hu    |-> HourlyUsersAfter(st.hu, CurrentHour(t), s.UserName) ]

RECURSIVE Loop(_, _, _)
\* Lines 290-399: `for session in sessions`.
Loop(st, items, t) ==
    IF items = << >> THEN st
    ELSE Loop(LoopBody(st, Head(items), t), Tail(items), t)

\* The live-TV sessions of a list, as session id -> (user, channel, time).
Observed(items, t) ==
    [id \in {items[i].Id : i \in {j \in 1..Len(items) : IsLiveTv(items[j])}} |->
        LET s == CHOOSE x \in {items[i] : i \in 1..Len(items)} : x.Id = id
        IN  [user |-> s.UserName, channel |-> s.Name, at |-> t]]


-----------------------------------------------------------------------------
(* The polling loop of emby_livetv_ultimate.py *)

NoCall == [n |-> 0, endpoint |-> "", resp |-> "", value |-> ""]

InitMetrics ==
    /\ server_up = 0
    /\ streams_active = 0
    /\ transcoding_active = 0
    /\ stream_bandwidth_total = 0
    /\ stream_bitrate = Empty
    /\ user_watch_time = Empty
    /\ user_channel_switches = Empty
    /\ api_latency_count = Empty
    /\ api_error_count = Empty
    /\ last_call = NoCall

InitHistory ==
    /\ executed = {}
    /\ raised = FALSE
    /\ got_malformed = FALSE
    /\ prev_obs = Empty
    /\ cur_obs = Empty

epgVars == << epg_programs, epg_day, epg_requests, epg_days_available >>

startVars == << api_key, exit_code, http_server_started, exporter_created >>

scrapeVars == << locals, completed, scraped >>

parseVars == << date_string, python, parsed >>

tunerVars == << tuners_total, tuners_available, tuners_in_use,
                tuner_utilization, tuner_status, tuners_seen >>

extraVars == << parseVars, tunerVars >>

\* The variables only the other specifications follow.
otherVars == << epgVars, scrapeVars, session_bandwidth, extraVars >>

\* The process before main has run (started = FALSE) or after main has set it
\* up (started = TRUE), with a credential.
StartedIs(started) ==
    /\ api_key = "secret"
    /\ exit_code = 0
    /\ http_server_started = started
    /\ exporter_created = started

NoLocals == [count |-> 0, bw |-> 0, trans |-> 0, qc |-> << >>, mc |-> << >>,
             users |-> {}]

\* A gauge of a percentage holds the fraction num / den; an unset gauge is 0.
Percent(num, den) == [num |-> num, den |-> den]

ZeroPercent == Percent(0, 1)

NoCycle == [n |-> 0, streams |-> 0, bw |-> 0, trans |-> 0]

NoScrape == [taken |-> FALSE, streams |-> 0, bw |-> 0, trans |-> 0, expected |-> NoCycle]

\* __init__ lines 166-168 and the unset gauges.
InitStats ==
    /\ peak_streams_24h = 0
    /\ peak_concurrent_streams = 0
    /\ channel_popularity_scores = Empty
    /\ popular_channels = Empty
    /\ streams_by_quality = Empty
    /\ stream_counts = {}
    /\ session_bandwidth = Empty
    /\ streams_by_method = Empty
    /\ hourly_users = Empty
    /\ prime_time_usage = ZeroPercent
    /\ tuners_total = 0
    /\ tuners_available = 0
    /\ tuners_in_use = 0
    /\ tuner_utilization = ZeroPercent
    /\ tuner_status = Empty
    /\ tuners_seen = << >>

\* Python's None as the argument of parse_emby_datetime.
NoDate == [type |-> "None", base |-> "", frac |-> << >>, offset |-> ""]

NotParsed == [kind |-> "", microsecond |-> 0, utcoffset |-> ""]

\* parse_emby_datetime was not called.
ParseIdle ==
    /\ date_string = NoDate
    /\ python = "3.11+"
    /\ parsed = NotParsed

\* No scrape was made.
ScrapeIdle ==
    /\ locals = NoLocals
    /\ completed = NoCycle
    /\ scraped = NoScrape

\* The probe of collect_epg has not run.
EpgIdle ==
    /\ epg_programs = {}
    /\ epg_day = 0
    /\ epg_requests = Empty
    /\ epg_days_available = 0

Init ==
    /\ pc = "main"
    /\ now = 0
    /\ variant = "ultimate"
    /\ sessions = NoSessions
    /\ channel_watch_start = Empty
    /\ last_channel_switch = Empty
    /\ InitMetrics
    /\ InitHistory
    /\ EpgIdle
    /\ in_progress = 0
    /\ StartedIs(FALSE)
    /\ ScrapeIdle
    /\ InitStats
    /\ ParseIdle

reqVars == << variant, api_latency_count, api_error_count, last_call >>

statVars == << peak_streams_24h, peak_concurrent_streams,
              channel_popularity_scores, popular_channels, streams_by_quality,
              stream_counts, streams_by_method, hourly_users,
              prime_time_usage >>

sessionVars == << sessions, streams_active, transcoding_active,
                  stream_bandwidth_total, stream_bitrate, user_watch_time,
                  user_channel_switches, channel_watch_start,
                  last_channel_switch, cur_obs, statVars >>

\* Mutant of OnRaise: the exception escapes collect_all_metrics and main.
OnRaiseUncaught == "crashed"

\* Mutant of HandlerServerUp: the except clause leaves the gauge alone.
HandlerServerUpKept == server_up

\* Where control goes when a collector raises: every exception a collector can
\* raise here (AttributeError, UnboundLocalError) is an Exception, which the
\* except clause of collect_all_metrics catches.
OnRaise == "handler"

\* server_up.set(0) in the except clause.
HandlerServerUp == 0

\* main calls exporter.collect_all_metrics(): one more call is in progress.
CallBegins(n) == n + 1

\* Mutant of CallReturns: the cycle is left running and main goes on.
CallDetached(n) == n

\* collect_all_metrics returns to main, after collect_epg or after the except
\* clause: the call is no longer in progress.
CallReturns(n) == n - 1

\* The value a GET of this script returns.
Fetch(resp) == MakeRequest(variant, resp).value

\* The values the GETs of this script can return, over all responses.
Fetched == {Fetch(resp) : resp \in Responses}

\* A collector was called, its GETs returned these values, and it returned or
\* raised.
Called(name, values, raises) ==
    /\ executed' = executed \cup {name}
    /\ got_malformed' = (got_malformed \/ "bad" \in values)
    /\ raised' = (raised \/ raises)

\* Mutant of MissingCredential: every value of the key is accepted.
CredentialAccepted(key) == FALSE

\* `if not EMBY_API_KEY`
MissingCredential(key) == key = ""

\* main up to its first call of collect_all_metrics: the credential check with
\* sys.exit(1), start_http_server, the exporter instance; then control is at
\* `first`, inside the first call.
Startup(first) ==
    /\ pc = "main"
    /\ IF MissingCredential(api_key)
       THEN /\ exit_code' = 1
            /\ pc' = "exited"
            /\ UNCHANGED << http_server_started, exporter_created, in_progress >>
       ELSE /\ http_server_started' = TRUE
            /\ exporter_created' = TRUE
            /\ in_progress' = CallBegins(in_progress)
            /\ pc' = first
            /\ UNCHANGED exit_code
    /\ UNCHANGED << otherVars, api_key, now, sessionVars, server_up, reqVars,
                    executed, raised, got_malformed, prev_obs >>

Main == Startup("server_info")

\* info.get on a JSON array raises before server_up is set.
CollectServerInfo ==
    /\ pc = "server_info"
    /\ \E info \in Fetched :
         /\ Called("server_info", {info}, info = "bad")
         /\ pc' = IF info = "bad" THEN OnRaise ELSE "channels"
         /\ server_up' = IF info = "payload" THEN 1
                         ELSE IF info = "none" THEN 0 ELSE server_up
    /\ UNCHANGED << otherVars, startVars, in_progress, now, sessionVars, reqVars, prev_obs >>

\* `not channels or 'Items' not in channels` also covers a JSON array.
CollectChannels ==
    /\ pc = "channels"
    /\ \E channels \in Fetched : Called("channels", {channels}, FALSE)
    /\ pc' = "sessions"
    /\ UNCHANGED << otherVars, startVars, in_progress, now, sessionVars, server_up, reqVars, prev_obs >>

\* The lists the server can report at time t.
SnapshotsAt(t) == IF t = Later THEN IdleSnapshots ELSE Snapshots

\* sessions = self._make_request('/Sessions')
CollectSessionsRequest ==
    /\ pc = "sessions"
    /\ \E got \in Fetched :
         /\ Called("sessions", {got}, FALSE)
         /\ IF got = "payload"
            THEN \E items \in SnapshotsAt(now) :
                    sessions' = [kind |-> "payload", items |-> items]
            ELSE sessions' = [kind |-> got, items |-> << >>]
    /\ pc' = "sessions_loop"
    /\ UNCHANGED << otherVars, startVars, in_progress, now, statVars, streams_active, transcoding_active,
                    stream_bandwidth_total, stream_bitrate, user_watch_time,
                    user_channel_switches, channel_watch_start,
                    last_channel_switch, cur_obs, server_up, reqVars, prev_obs >>

\* `if not sessions: return` is taken for None and for the empty list.
ReturnsEarly(ss) == ss.kind = "none" \/ (ss.kind = "payload" /\ ss.items = << >>)

\* Lines 280-288: the locals start at zero; the loop works on the exporter's
\* dicts and on the labelled metrics.
LoopStart ==
    [count |-> 0, trans |-> 0, bw |-> 0,
     ucs |-> user_channel_switches,
     lcs |-> last_channel_switch,
     cws |-> channel_watch_start,
     uwt |-> user_watch_time,
     sb  |-> stream_bitrate,
     qc  |-> Empty,
     pop |-> channel_popularity_scores,
     mc  |-> Empty,
     users |-> {},
     hu  |-> hourly_users]

\* Mutant of PeakAfter: the peak follows the current count.
PeakIsCurrent(peak, count) == count

\* Lines 408-409: the peak is raised to a larger count.
PeakAfter(peak, count) == IF count > peak THEN count ELSE peak

\* Lines 420-422: the gauge is set for the buckets of quality_counts only.
QualityGaugeAfter(g, qc) ==
    [q \in (DOMAIN g) \cup (DOMAIN qc) |-> IF q \in DOMAIN qc THEN qc[q] ELSE g[q]]

RECURSIVE MaxOf(_)
\* max() of a nonempty set of numbers.
MaxOf(S) ==
    LET x == CHOOSE y \in S : TRUE
    IN  IF S = {x} THEN x
        ELSE LET m == MaxOf(S \ {x}) IN IF x > m THEN x ELSE m

\* Line 433: max(scores.values()) if there are scores, else 1.
MaxPopularity(pop) ==
    IF DOMAIN pop = {} THEN 1 ELSE MaxOf({pop[c] : c \in DOMAIN pop})

\* Line 435: (score / max_popularity) * 100, as the fraction num / den.
Normalized(score, max_popularity) == [num |-> score * 100, den |-> max_popularity]

\* Lines 433-439: the gauge is set for every channel that has a score.
PopularityGaugeAfter(g, pop) ==
    [c \in (DOMAIN g) \cup (DOMAIN pop) |->
        IF c \in DOMAIN pop THEN Normalized(pop[c], MaxPopularity(pop)) ELSE g[c]]

\* Lines 424-426: the gauge is set for the methods of method_counts only.
MethodGaugeAfter(g, mc) ==
    [m \in (DOMAIN g) \cup (DOMAIN mc) |-> IF m \in DOMAIN mc THEN mc[m] ELSE g[m]]

\* Lines 446-448: the users of the hours 18..22 of self.hourly_users.
PrimeTimeUsers(hu) == UNION {hu[h] : h \in (DOMAIN hu) \cap (18..22)}

\* Lines 450-452: (len(prime_time_users) / len(users_watching_set)) * 100,
\* set only when somebody is watching.
PrimeTimeAfter(g, hu, users) ==
    IF users # {}
    THEN Percent(Cardinality(PrimeTimeUsers(hu)) * 100, Cardinality(users))
    ELSE g

\* Lines 407-452 of the "Set all metrics" block.
SetRest(st) ==
    /\ peak_streams_24h' = PeakAfter(peak_streams_24h, st.count)
    /\ peak_concurrent_streams' = PeakAfter(peak_streams_24h, st.count)
    /\ streams_by_quality' = QualityGaugeAfter(streams_by_quality, st.qc)
    /\ channel_popularity_scores' = st.pop
    /\ popular_channels' = PopularityGaugeAfter(popular_channels, st.pop)
    /\ stream_counts' = stream_counts \cup {st.count}
    /\ streams_by_method' = MethodGaugeAfter(streams_by_method, st.mc)
    /\ hourly_users' = st.hu
    /\ prime_time_usage' = PrimeTimeAfter(prime_time_usage, st.hu, st.users)

LoopResult == Loop(LoopStart, sessions.items, now)

\* The rest of collect_sessions: the early return, or the loop and the
\* "Set all metrics" block.  Iterating a JSON object yields its keys, and
\* session.get on a string raises in the first pass.
CollectSessionsProcess ==
    /\ pc = "sessions_loop"
    /\ variant = "ultimate"
    /\ sessions' = NoSessions
    /\ IF ReturnsEarly(sessions) \/ sessions.kind = "bad"
       THEN /\ pc' = IF sessions.kind = "bad" THEN OnRaise ELSE "tuners"
            /\ raised' = (raised \/ sessions.kind = "bad")
            /\ UNCHANGED << streams_active, transcoding_active,
                            stream_bandwidth_total, stream_bitrate,
                            user_watch_time, user_channel_switches,
                            channel_watch_start, last_channel_switch, cur_obs,
                            statVars >>
       ELSE LET st == LoopResult
            IN  /\ pc' = "tuners"
                /\ raised' = raised
                /\ streams_active' = st.count
                /\ transcoding_active' = st.trans
                /\ stream_bandwidth_total' = st.bw
                /\ stream_bitrate' = st.sb
                /\ user_watch_time' = st.uwt
                /\ user_channel_switches' = st.ucs
                /\ channel_watch_start' = st.cws
                /\ last_channel_switch' = st.lcs
                /\ cur_obs' = Observed(sessions.items, now)
                /\ SetRest(st)
    /\ UNCHANGED << otherVars, startVars, in_progress, now, server_up, reqVars, executed, got_malformed, prev_obs >>

\* A tuner of the /LiveTv/Tuners payload.  "None" is what tuner.get returns
\* for a key that is absent or null; ChannelName is reported with a channel.
Tuner(id, channel_id, status) ==
    [Id |-> id, ChannelId |-> channel_id, Status |-> status,
     HasChannelName |-> channel_id = "ch1", ChannelName |-> "News24"]

\* The truth value Python gives tuner.get('ChannelId').
Truthy(value) == value \notin {"None", ""}

\* Mutant of IsInUse: only a tuner showing a channel is in use.
InUseByChannelOnly(tuner) == Truthy(tuner.ChannelId)

\* Line 479: is_in_use = 1 if (channel_id or status == 'LiveTv') else 0
IsInUse(tuner) == Truthy(tuner.ChannelId) \/ tuner.Status = "LiveTv"

\* Lines 483, 486: tuner.get('ChannelName', 'Unknown') of a tuner in use,
\* 'None' of a free one.
TunerChannel(tuner) ==
    IF IsInUse(tuner)
    THEN (IF tuner.HasChannelName THEN tuner.ChannelName ELSE "Unknown")
    ELSE "None"

\* Lines 481-493: one pass of `for tuner in tuners`.
TunerBody(st, tuner) ==
    [in_use |-> st.in_use + (IF IsInUse(tuner) THEN 1 ELSE 0),
     available |-> st.available + (IF IsInUse(tuner) THEN 0 ELSE 1),
     status |-> Put(st.status, <<tuner.Id, TunerChannel(tuner)>>,
                    IF IsInUse(tuner) THEN 1 ELSE 0)]

RECURSIVE TunerLoop(_, _)
\* Lines 471-493: `for tuner in tuners`.
TunerLoop(st, tuners) ==
    IF tuners = << >> THEN st
    ELSE TunerLoop(TunerBody(st, Head(tuners)), Tail(tuners))

\* Lines 500-502: (in_use_count / total_tuners) * 100.
Utilization(in_use_count, total_tuners) == Percent(in_use_count * 100, total_tuners)

\* collect_tuners when the GET returned `got` and, for a JSON array, the
\* tuners `list`.  `not tuners or not isinstance(tuners, list)` covers None,
\* the empty list and a JSON object: the four gauges are set to 0.
CollectTunersGot(got, list) ==
    /\ pc = "tuners"
    /\ Called("tuners", {got}, FALSE)
    /\ tuners_seen' = list
    /\ IF got # "payload" \/ list = << >>
       THEN /\ tuners_total' = 0
            /\ tuners_available' = 0
            /\ tuners_in_use' = 0
            /\ tuner_utilization' = ZeroPercent
            /\ UNCHANGED tuner_status
       ELSE LET st == TunerLoop([in_use |-> 0, available |-> 0,
                                 status |-> tuner_status], list)
            IN  /\ tuners_total' = Len(list)
                /\ tuners_available' = st.available
                /\ tuners_in_use' = st.in_use
                /\ tuner_utilization' = Utilization(st.in_use, Len(list))
                /\ tuner_status' = st.status
    /\ pc' = "recordings"
    /\ UNCHANGED << epgVars, scrapeVars, session_bandwidth, parseVars, startVars,
                    in_progress, now, sessionVars, server_up, reqVars, prev_obs >>

\* collect_tuners against a server whose tuner lists are `lists`.
CollectTunersOf(lists) ==
    \E got \in Fetched :
        IF got = "payload"
        THEN \E list \in lists : CollectTunersGot(got, list)
        ELSE CollectTunersGot(got, << >>)

\* The server of the polling loop has no tuner.
NoTuners == {<< >>}

CollectTuners == CollectTunersOf(NoTuners)

\* The log line of lines 533-534 runs when the third call (all recordings) gave
\* a dict with Items; it reads active.get (AttributeError for None and for a
\* JSON array) and scheduled_count, which is bound only when the timers call
\* gave a dict with Items (UnboundLocalError otherwise).
RecordingsRaises(active, timers, all_recordings) ==
    all_recordings = "payload" /\ (active # "payload" \/ timers # "payload")

CollectRecordings ==
    /\ pc = "recordings"
    /\ \E active \in Fetched, timers \in Fetched, all_recordings \in Fetched :
         LET raises == RecordingsRaises(active, timers, all_recordings) IN
         /\ Called("recordings", {active, timers, all_recordings}, raises)
         /\ pc' = IF raises THEN OnRaise ELSE "epg"
    /\ UNCHANGED << otherVars, startVars, in_progress, now, sessionVars, server_up, reqVars, prev_obs >>

\* collect_epg raises when `upcoming` or a probe answer is a JSON array
\* (upcoming.get, future_programs.get), and in its last log line when
\* today_programs is no dict (None or array) or upcoming is None.
EpgRaises(today, upcoming, probe) ==
    today # "payload" \/ upcoming # "payload" \/ probe = "bad"

CollectEpg ==
    /\ pc = "epg"
    /\ \E today \in Fetched, upcoming \in Fetched, probe \in Fetched :
         LET raises == EpgRaises(today, upcoming, probe) IN
         /\ Called("epg", {today, upcoming, probe}, raises)
         /\ pc' = IF raises THEN OnRaise ELSE "sleep"
         /\ in_progress' = IF raises THEN in_progress ELSE CallReturns(in_progress)
    /\ UNCHANGED << otherVars, startVars, now, sessionVars, server_up, reqVars, prev_obs >>

\* except Exception: log, server_up.set(0), count a collection error; then
\* collect_all_metrics returns to main.
Handler ==
    /\ pc = "handler"
    /\ server_up' = HandlerServerUp
    /\ pc' = "sleep"
    /\ in_progress' = CallReturns(in_progress)
    /\ UNCHANGED << otherVars, startVars, now, sessionVars, reqVars, executed, raised, got_malformed,
                    prev_obs >>

\* The next cycle begins: the history of the cycle is closed.
NextCycle ==
    /\ pc' = "server_info"
    /\ in_progress' = CallBegins(in_progress)
    /\ executed' = {}
    /\ raised' = FALSE
    /\ got_malformed' = FALSE
    /\ prev_obs' = cur_obs
    /\ cur_obs' = Empty
    /\ UNCHANGED << otherVars, startVars, statVars, sessions, streams_active, transcoding_active,
                    stream_bandwidth_total, stream_bitrate, user_watch_time,
                    user_channel_switches, channel_watch_start,
                    last_channel_switch, server_up, reqVars >>

\* time.sleep(SCRAPE_INTERVAL), then the next collect_all_metrics.  The time
\* the cycle itself took is added here.
Sleep ==
    /\ pc = "sleep"
    /\ \E d \in 0..MaxJitter :
         /\ now + SCRAPE_INTERVAL + d <= MaxTime
         /\ now' = now + SCRAPE_INTERVAL + d
    /\ NextCycle

\* The same, for the loop that runs forever.
SleepLive ==
    /\ pc = "sleep"
    /\ \E d \in 0..MaxJitter :
         now' = IF now + SCRAPE_INTERVAL + d <= LiveMaxTime
                THEN now + SCRAPE_INTERVAL + d ELSE Later
    /\ NextCycle

Cycle ==
    \/ Main
    \/ CollectServerInfo
    \/ CollectChannels
    \/ CollectSessionsRequest
    \/ CollectSessionsProcess
    \/ CollectTuners
    \/ CollectRecordings
    \/ CollectEpg
    \/ Handler

Next == Cycle \/ Sleep

Spec == Init /\ [][Next]_vars

NextLive == Cycle \/ SleepLive

LiveSpec == Init /\ [][NextLive]_vars /\ WF_vars(NextLive)


-----------------------------------------------------------------------------
(* Single calls of _make_request, in each of the four scripts *)

InitReq ==
    /\ pc = "request"
    /\ now = 0
    /\ variant \in Variants
    /\ sessions = NoSessions
    /\ channel_watch_start = Empty
    /\ last_channel_switch = Empty
    /\ InitMetrics
    /\ InitHistory
    /\ EpgIdle
    /\ in_progress = 0
    /\ StartedIs(TRUE)
    /\ ScrapeIdle
    /\ InitStats
    /\ ParseIdle

Bump(f, k) == Put(f, k, Lookup(f, k) + 1)

\* One call of self._make_request(endpoint).
Request ==
    /\ pc = "request"
    /\ last_call.n < MaxCalls
    /\ \E endpoint \in Endpoints, resp \in Responses :
         LET r == MakeRequest(variant, resp) IN
         /\ api_latency_count' =
              IF r.observed THEN Bump(api_latency_count, endpoint)
              ELSE api_latency_count
         /\ api_error_count' =
              IF r.error THEN Bump(api_error_count, ErrorLabel(variant, endpoint))
              ELSE api_error_count
         /\ last_call' = [n |-> last_call.n + 1, endpoint |-> endpoint,
                          resp |-> resp, value |-> r.value]
    /\ UNCHANGED << otherVars, startVars, in_progress, pc, now, variant, sessionVars, server_up, executed, raised,
                    got_malformed, prev_obs >>

ReqSpec == InitReq /\ [][Request]_vars

-----------------------------------------------------------------------------
(* The days-available probe of collect_epg (lines 590-604) *)

\* max_days = 14
max_days == 14

\* The server's guide: the lookahead days for which it has programs.  At most
\* MaxGaps of the max_days days have none.
MaxGaps == 2

ProgramDays ==
    {P \in SUBSET (1..max_days) : Cardinality((1..max_days) \ P) <= MaxGaps}

InitEpg ==
    /\ pc = "epg_probe"
    /\ now = 0
    /\ variant = "ultimate"
    /\ sessions = NoSessions
    /\ channel_watch_start = Empty
    /\ last_channel_switch = Empty
    /\ InitMetrics
    /\ InitHistory
    /\ epg_programs \in ProgramDays
    /\ epg_day = 1
    /\ epg_requests = Empty
    /\ epg_days_available = 0
    /\ in_progress = 0
    /\ StartedIs(TRUE)
    /\ ScrapeIdle
    /\ InitStats
    /\ ParseIdle

\* What one probe request of a day gives: programs (TotalRecordCount > 0),
\* an empty answer (TotalRecordCount = 0 or missing), None (404 or a failed
\* call), or a JSON array, on which future_programs.get raises.
ProbeAnswer(value, day) ==
    IF value = "payload"
    THEN (IF day \in epg_programs THEN "programs" ELSE "empty")
    ELSE IF value = "none" THEN "failed" ELSE "raised"

\* Mutant of DaysAtBreak: the day of the empty answer is counted too.
DaysAtBreakInclusive(days) == days

\* Line 600: epg_days_available.set(days - 1)
DaysAtBreak(days) == days - 1

\* One pass of `for days in range(1, max_days + 1)`: the request, the test of
\* line 599 with its break, and after the last pass the else branch of the for.
ProbeDay ==
    /\ pc = "epg_probe"
    /\ \E resp \in Responses :
         LET answer == ProbeAnswer(Fetch(resp), epg_day) IN
         /\ epg_requests' = Put(epg_requests, epg_day, answer)
         /\ IF answer = "raised"
            THEN /\ pc' = "epg_raised"
                 /\ UNCHANGED << epg_day, epg_days_available >>
            ELSE IF answer # "programs"
            THEN /\ epg_days_available' = DaysAtBreak(epg_day)
                 /\ pc' = "epg_done"
                 /\ UNCHANGED epg_day
            ELSE IF epg_day = max_days
            THEN /\ epg_days_available' = max_days
                 /\ pc' = "epg_done"
                 /\ UNCHANGED epg_day
            ELSE /\ epg_day' = epg_day + 1
                 /\ pc' = "epg_probe"
                 /\ UNCHANGED epg_days_available
    /\ UNCHANGED << epg_programs, session_bandwidth, extraVars, startVars, scrapeVars, in_progress, now, sessionVars, server_up, reqVars,
                    executed, raised, got_malformed, prev_obs >>

EpgSpec == InitEpg /\ [][ProbeDay]_vars

-----------------------------------------------------------------------------
(* main of the four scripts: the credential check *)

\* EMBY_API_KEY = os.getenv('EMBY_API_KEY', ''): unset or empty, or a key.
Keys == {"", "secret"}

InitStart ==
    /\ pc = "main"
    /\ now = 0
    /\ variant \in Variants
    /\ sessions = NoSessions
    /\ channel_watch_start = Empty
    /\ last_channel_switch = Empty
    /\ InitMetrics
    /\ InitHistory
    /\ EpgIdle
    /\ in_progress = 0
    /\ api_key \in Keys
    /\ exit_code = 0
    /\ http_server_started = FALSE
    /\ exporter_created = FALSE
    /\ ScrapeIdle
    /\ InitStats
    /\ ParseIdle

\* main of any of the scripts; the first collection then makes its API calls.
StartMain == Startup("request")

NextStart == StartMain \/ Request

StartSpec == InitStart /\ [][NextStart]_vars

-----------------------------------------------------------------------------
(* collect_sessions of the fixed, debug and ultimate scripts *)

\* SessSpec: no pass of collect_sessions starts after this time.
MaxSessTime == 30

SessVariants == {"fixed", "debug", "ultimate"}

Heights == {0, 479, 480, 719, 720, 1079, 1080, 2159, 2160}

PlayMethods == {"Transcode", "DirectPlay", "DirectStream"}

\* A session object of /Sessions.  Type "none" stands for a session without
\* NowPlayingItem; a Has... flag says whether the key is in the JSON object.
RichSession(id, u, type, name, ps, pm, hb, b, ti, br, hh, h) ==
    [Id |-> id, UserName |-> u, Type |-> type, Name |-> name,
     HasPlayState |-> ps, PlayMethod |-> pm,
     HasBandwidth |-> hb, Bandwidth |-> b,
     HasTranscodingInfo |-> ti, Bitrate |-> br,
     HasHeight |-> hh, Height |-> h]

\* An idle session.
IdleSession(id, u) ==
    RichSession(id, u, "none", "", FALSE, "Unknown", FALSE, 0, FALSE, 0, FALSE, 0)

\* Transcoded live-TV sessions of every height, and without a height.
QualitySessions(id, u) ==
    {RichSession(id, u, "TvChannel", "News24", TRUE, "Transcode", FALSE, 0,
                 TRUE, 5000000, TRUE, h) : h \in Heights}
    \cup {RichSession(id, u, "TvChannel", "News24", TRUE, "Transcode", FALSE, 0,
                      TRUE, 5000000, FALSE, 0)}

\* Sessions playing a movie or a channel, with every combination of play
\* state, Bandwidth field and TranscodingInfo bitrate.
BandwidthSessions(id, u) ==
    { RichSession(id, u, t[1], t[2], ps[1], ps[2], b[1], b[2], ti[1], ti[2], ti[1], 1080) :
        t  \in {<<"Movie", "Movie">>, <<"TvChannel", "News24">>},
        ps \in {<<FALSE, "Unknown">>} \cup {<<TRUE, m>> : m \in PlayMethods},
        b  \in {<<FALSE, 0>>, <<TRUE, 0>>, <<TRUE, 3000000>>},
        ti \in {<<FALSE, 0>>, <<TRUE, 0>>, <<TRUE, 5000000>>} }

FirstSessions ==
    {IdleSession("s1", "alice")}
    \cup QualitySessions("s1", "alice") \cup BandwidthSessions("s1", "alice")

SecondSessions ==
    { RichSession("s2", "bob", "TvChannel", "Sports1", TRUE, "DirectStream",
                  FALSE, 0, FALSE, 0, FALSE, 0),
      RichSession("s2", "bob", "Movie", "Movie", TRUE, "Transcode",
                  TRUE, 3000000, FALSE, 0, FALSE, 0) }

\* The lists /Sessions returns to the first pass, and to later passes.
RichSnapshots ==
    { << >> } \cup { <<a>> : a \in FirstSessions }
    \cup { <<a, b>> : a \in FirstSessions, b \in SecondSessions }

LaterSnapshots ==
    { << >>,
      <<RichSession("s1", "alice", "TvChannel", "News24", TRUE, "DirectPlay",
                    TRUE, 3000000, FALSE, 0, FALSE, 0)>> }

InitSess ==
    /\ pc = "sessions"
    /\ now = 0
    /\ variant \in SessVariants
    /\ sessions = NoSessions
    /\ channel_watch_start = Empty
    /\ last_channel_switch = Empty
    /\ InitMetrics
    /\ InitHistory
    /\ EpgIdle
    /\ in_progress = 1
    /\ StartedIs(TRUE)
    /\ ScrapeIdle
    /\ InitStats
    /\ ParseIdle

\* sessions = self._make_request('/Sessions'), answered with a list or not
\* answered.
SessRequest ==
    /\ pc = "sessions"
    /\ \E got \in Fetched \ {"bad"} :
         /\ Called("sessions", {got}, FALSE)
         /\ IF got = "payload"
            THEN \E items \in (IF now = 0 THEN RichSnapshots ELSE LaterSnapshots) :
                    sessions' = [kind |-> "payload", items |-> items]
            ELSE sessions' = [kind |-> got, items |-> << >>]
    /\ pc' = "sessions_loop"
    /\ UNCHANGED << otherVars, startVars, in_progress, now, statVars,
                    streams_active, transcoding_active, stream_bandwidth_total,
                    stream_bitrate, user_watch_time, user_channel_switches,
                    channel_watch_start, last_channel_switch, cur_obs,
                    server_up, reqVars, prev_obs >>

IsStreaming(s) == s.Type # "none"

\* The labels of a session's series.
SeriesOf(s) == <<s.Id, s.UserName>>

\* session.get('Bandwidth', 0)
BandwidthField(s) == IF s.HasBandwidth THEN s.Bandwidth ELSE 0

\* emby_exporter_fixed.py lines 196-216: one pass of the loop body.  Nothing
\* but streaming_count is touched for a session without PlayState.
FixedBody(st, s) ==
    IF ~IsStreaming(s) THEN st
    ELSE IF ~s.HasPlayState THEN [st EXCEPT !.count = st.count + 1]
    ELSE [ count |-> st.count + 1,
           trans |-> st.trans + (IF s.PlayMethod = "Transcode" THEN 1 ELSE 0),
           bw    |-> st.bw + BandwidthField(s),
           sb    |-> Put(st.sb, SeriesOf(s), BandwidthField(s)) ]

\* Mutant of DebugBandwidth: the transcoding bitrate is preferred.
BandwidthFromTranscoding(s) ==
    IF s.HasTranscodingInfo THEN s.Bitrate
    ELSE IF s.HasBandwidth THEN s.Bandwidth
    ELSE 0

\* emby_exporter_debug.py lines 191-199: the Bandwidth field if the session
\* has one, else the Bitrate of TranscodingInfo, else 0.
DebugBandwidth(s) ==
    IF s.HasBandwidth THEN s.Bandwidth
    ELSE IF s.HasTranscodingInfo THEN s.Bitrate
    ELSE 0

\* emby_exporter_debug.py lines 166-226: one pass of the loop body.
DebugBody(st, s) ==
    IF ~IsStreaming(s) THEN st
    ELSE [ count |-> st.count + 1,
           trans |-> st.trans + (IF PlayMethodOf(s) = "Transcode" THEN 1 ELSE 0),
           bw    |-> st.bw + (IF DebugBandwidth(s) > 0 THEN DebugBandwidth(s) ELSE 0),
           sb    |-> Put(st.sb, SeriesOf(s),
                         IF DebugBandwidth(s) > 0 THEN DebugBandwidth(s) ELSE 0) ]

RECURSIVE FixedLoop(_, _)
FixedLoop(st, items) ==
    IF items = << >> THEN st
    ELSE FixedLoop(FixedBody(st, Head(items)), Tail(items))

RECURSIVE DebugLoop(_, _)
DebugLoop(st, items) ==
    IF items = << >> THEN st
    ELSE DebugLoop(DebugBody(st, Head(items)), Tail(items))

\* What collect_sessions of the fixed and debug scripts leaves alone.
PlainKeeps ==
    UNCHANGED << epgVars, scrapeVars, extraVars, startVars, in_progress, now, statVars,
                 stream_bitrate, user_watch_time, user_channel_switches,
                 channel_watch_start, last_channel_switch, cur_obs, server_up,
                 reqVars, executed, raised, got_malformed, prev_obs >>

\* The rest of collect_sessions of emby_exporter_fixed.py: `if not sessions:
\* return`, or the loop and the four set() calls.
FixedCollectSessions ==
    /\ pc = "sessions_loop"
    /\ variant = "fixed"
    /\ sessions' = NoSessions
    /\ pc' = "tuners"
    /\ IF ReturnsEarly(sessions)
       THEN UNCHANGED << streams_active, transcoding_active,
                         stream_bandwidth_total, session_bandwidth >>
       ELSE LET st == FixedLoop([count |-> 0, trans |-> 0, bw |-> 0,
                                 sb |-> session_bandwidth], sessions.items)
            IN  /\ streams_active' = st.count
                /\ transcoding_active' = st.trans
                /\ stream_bandwidth_total' = st.bw
                /\ session_bandwidth' = st.sb
    /\ PlainKeeps

\* The rest of collect_sessions of emby_exporter_debug.py: the return for
\* None, or the loop (none of its passes for an empty list) and the set()
\* calls.
DebugCollectSessions ==
    /\ pc = "sessions_loop"
    /\ variant = "debug"
    /\ sessions' = NoSessions
    /\ pc' = "tuners"
    /\ IF sessions.kind = "none"
       THEN UNCHANGED << streams_active, transcoding_active,
                         stream_bandwidth_total, session_bandwidth >>
       ELSE LET st == DebugLoop([count |-> 0, trans |-> 0, bw |-> 0,
                                 sb |-> session_bandwidth], sessions.items)
            IN  /\ streams_active' = st.count
                /\ transcoding_active' = st.trans
                /\ stream_bandwidth_total' = st.bw
                /\ session_bandwidth' = st.sb
    /\ PlainKeeps

\* The rest of the cycle and the sleep: the next pass of collect_sessions.
SessNextPass ==
    /\ pc = "tuners"
    /\ now + SCRAPE_INTERVAL <= MaxSessTime
    /\ now' = now + SCRAPE_INTERVAL
    /\ pc' = "sessions"
    /\ executed' = {}
    /\ raised' = FALSE
    /\ got_malformed' = FALSE
    /\ prev_obs' = cur_obs
    /\ cur_obs' = Empty
    /\ UNCHANGED << otherVars, startVars, in_progress, statVars, sessions,
                    streams_active, transcoding_active, stream_bandwidth_total,
                    stream_bitrate, user_watch_time, user_channel_switches,
                    channel_watch_start, last_channel_switch, server_up, reqVars >>

NextSess ==
    \/ SessRequest
    \/ CollectSessionsProcess
    \/ FixedCollectSessions
    \/ DebugCollectSessions
    \/ SessNextPass

SessSpec == InitSess /\ [][NextSess]_vars

-----------------------------------------------------------------------------
(* The exposition server's thread beside the polling loop *)

\* ScrapeSpec: no cycle starts after this time.
MaxScrapeTime == 30

\* Lines 277-399 of collect_sessions: the early return, or the loop, which
\* leaves the locals for the "Set all metrics" block.
RunLoop ==
    /\ pc = "sessions_loop"
    /\ sessions' = NoSessions
    /\ IF ReturnsEarly(sessions) \/ sessions.kind = "bad"
       THEN /\ pc' = IF sessions.kind = "bad" THEN OnRaise ELSE "tuners"
            /\ raised' = (raised \/ sessions.kind = "bad")
            /\ UNCHANGED << stream_bitrate, user_watch_time,
                            user_channel_switches, channel_watch_start,
                            last_channel_switch, cur_obs, locals,
                            channel_popularity_scores, hourly_users >>
       ELSE LET st == LoopResult
            IN  /\ pc' = "set_streams_active"
                /\ raised' = raised
                /\ locals' = [count |-> st.count, bw |-> st.bw,
                               trans |-> st.trans, qc |-> st.qc,
                               mc |-> st.mc, users |-> st.users]
                /\ hourly_users' = st.hu
                /\ channel_popularity_scores' = st.pop
                /\ stream_bitrate' = st.sb
                /\ user_watch_time' = st.uwt
                /\ user_channel_switches' = st.ucs
                /\ channel_watch_start' = st.cws
                /\ last_channel_switch' = st.lcs
                /\ cur_obs' = Observed(sessions.items, now)
    /\ UNCHANGED << epgVars, session_bandwidth, extraVars, completed, scraped, startVars, in_progress, now,
                    peak_streams_24h, peak_concurrent_streams, popular_channels,
                    streams_by_quality, stream_counts, streams_by_method,
                    prime_time_usage,
                    streams_active, transcoding_active, stream_bandwidth_total,
                    server_up, reqVars, executed, got_malformed, prev_obs >>

\* What a step of the "Set all metrics" block leaves alone.
SetKeeps ==
    UNCHANGED << epgVars, session_bandwidth, extraVars, scrapeVars, startVars, in_progress, now, sessions,
                 channel_popularity_scores, hourly_users,
                 stream_bitrate, user_watch_time, user_channel_switches,
                 channel_watch_start, last_channel_switch, cur_obs, server_up,
                 reqVars, executed, raised, got_malformed, prev_obs >>

\* Line 402: streams_active.set(livetv_stream_count)
SetStreamsActive ==
    /\ pc = "set_streams_active"
    /\ streams_active' = locals.count
    /\ pc' = "set_bandwidth_total"
    /\ UNCHANGED << transcoding_active, stream_bandwidth_total,
                    peak_streams_24h, peak_concurrent_streams, popular_channels,
                    streams_by_quality, stream_counts, streams_by_method,
                    prime_time_usage >>
    /\ SetKeeps

\* Line 404: stream_bandwidth_total.set(total_bandwidth_mbps)
SetBandwidthTotal ==
    /\ pc = "set_bandwidth_total"
    /\ stream_bandwidth_total' = locals.bw
    /\ pc' = "set_transcoding_active"
    /\ UNCHANGED << streams_active, transcoding_active,
                    peak_streams_24h, peak_concurrent_streams, popular_channels,
                    streams_by_quality, stream_counts, streams_by_method,
                    prime_time_usage >>
    /\ SetKeeps

\* Line 405: transcoding_active.set(transcoding_count)
SetTranscodingActive ==
    /\ pc = "set_transcoding_active"
    /\ transcoding_active' = locals.trans
    /\ pc' = "set_rest"
    /\ UNCHANGED << streams_active, stream_bandwidth_total,
                    peak_streams_24h, peak_concurrent_streams, popular_channels,
                    streams_by_quality, stream_counts, streams_by_method,
                    prime_time_usage >>
    /\ SetKeeps

\* Lines 407-454: the peak, the labelled gauges, and the return.
SetRemaining ==
    /\ pc = "set_rest"
    /\ peak_streams_24h' = PeakAfter(peak_streams_24h, locals.count)
    /\ peak_concurrent_streams' = PeakAfter(peak_streams_24h, locals.count)
    /\ streams_by_quality' = QualityGaugeAfter(streams_by_quality, locals.qc)
    /\ popular_channels' =
         PopularityGaugeAfter(popular_channels, channel_popularity_scores)
    /\ stream_counts' = stream_counts \cup {locals.count}
    /\ streams_by_method' = MethodGaugeAfter(streams_by_method, locals.mc)
    /\ prime_time_usage' =
         PrimeTimeAfter(prime_time_usage, hourly_users, locals.users)
    /\ pc' = "tuners"
    /\ UNCHANGED << streams_active, stream_bandwidth_total, transcoding_active >>
    /\ SetKeeps

\* The gauges as a cycle that has returned left them: between two cycles these
\* are the current values, inside a cycle the values recorded when it began.
LastCompleted ==
    IF pc = "sleep"
    THEN [n |-> completed.n + 1, streams |-> streams_active,
          bw |-> stream_bandwidth_total, trans |-> transcoding_active]
    ELSE completed

\* time.sleep(SCRAPE_INTERVAL), then the next collect_all_metrics.
ScrapeSleep ==
    /\ pc = "sleep"
    /\ now + SCRAPE_INTERVAL <= MaxScrapeTime
    /\ now' = now + SCRAPE_INTERVAL
    /\ completed' = LastCompleted
    /\ pc' = "server_info"
    /\ in_progress' = CallBegins(in_progress)
    /\ executed' = {}
    /\ raised' = FALSE
    /\ got_malformed' = FALSE
    /\ prev_obs' = cur_obs
    /\ cur_obs' = Empty
    /\ UNCHANGED << epgVars, session_bandwidth, extraVars, locals, scraped, startVars, sessions, statVars,
                    streams_active, transcoding_active, stream_bandwidth_total,
                    stream_bitrate, user_watch_time, user_channel_switches,
                    channel_watch_start, last_channel_switch, server_up, reqVars >>

\* A GET of /metrics, served by the thread start_http_server started: it reads
\* the gauges as they are at that moment.
Scrape ==
    /\ http_server_started
    /\ scraped' = [taken |-> TRUE, streams |-> streams_active,
                   bw |-> stream_bandwidth_total, trans |-> transcoding_active,
                   expected |-> LastCompleted]
    /\ UNCHANGED << epgVars, session_bandwidth, extraVars, locals, completed, startVars, in_progress, pc, now,
                    sessionVars, server_up, reqVars, executed, raised,
                    got_malformed, prev_obs >>

NextScrape ==
    \/ Main
    \/ CollectServerInfo
    \/ CollectChannels
    \/ CollectSessionsRequest
    \/ RunLoop
    \/ SetStreamsActive
    \/ SetBandwidthTotal
    \/ SetTranscodingActive
    \/ SetRemaining
    \/ CollectTuners
    \/ CollectRecordings
    \/ CollectEpg
    \/ Handler
    \/ ScrapeSleep
    \/ Scrape

ScrapeSpec == Init /\ [][NextScrape]_vars

-----------------------------------------------------------------------------
(* parse_emby_datetime *)

\* The longest fractional part of a timestamp.
MaxDigits == 8

FractionDigits == {0, 9}

\* The digits after the '.', none when the string has no '.'.
Fractions == UNION {[1..n -> FractionDigits] : n \in 0..MaxDigits}

\* What follows the seconds and the fraction: nothing, 'Z', a numeric offset,
\* or text that is no offset.
Offsets == {"", "Z", "+00:00", "+05:30", "-05:00", "UTC"}

\* The part up to the seconds: "valid" is a date-time such as
\* 2025-07-20T01:16:29, "invalid" has that shape and names no date-time
\* (2025-13-20T01:16:29), "garbage" has not even the shape.
Bases == {"valid", "invalid", "garbage"}

Text(base, frac, offset) ==
    [type |-> "str", base |-> base, frac |-> frac, offset |-> offset]

\* The arguments: None, the empty string, a JSON number, and strings.
DateStrings ==
    {[NoDate EXCEPT !.type = t] : t \in {"None", "empty", "int"}}
    \cup {Text(b, f, o) : b \in Bases, f \in Fractions, o \in Offsets}

\* datetime.fromisoformat before Python 3.11 and from Python 3.11 on.
Pythons == {"3.7", "3.11+"}

ParseVariants == {"fixed", "livetv", "ultimate"}

None == [kind |-> "None", microsecond |-> 0, utcoffset |-> ""]

ValueError == [kind |-> "ValueError", microsecond |-> 0, utcoffset |-> ""]

AttributeError == [kind |-> "AttributeError", microsecond |-> 0, utcoffset |-> ""]

\* The offsets fromisoformat reads: +HH:MM and -HH:MM.
IsoOffsets == {"+00:00", "+05:30", "-05:00"}

RECURSIVE DigitsValue(_)
\* The number a string of digits denotes.
DigitsValue(digits) ==
    IF digits = << >> THEN 0
    ELSE DigitsValue(SubSeq(digits, 1, Len(digits) - 1)) * 10 + digits[Len(digits)]

RECURSIVE Pow10(_)
Pow10(n) == IF n = 0 THEN 1 ELSE 10 * Pow10(n - 1)

\* The microsecond fromisoformat reads from a fraction: the first six digits,
\* a shorter fraction padded with zeros.
Microsecond(frac) ==
    LET n == IF Len(frac) < 6 THEN Len(frac) ELSE 6
    IN  DigitsValue(SubSeq(frac, 1, n)) * Pow10(6 - n)

\* Before 3.11 fromisoformat takes a fraction of 3 or 6 digits only and no
\* 'Z'; from 3.11 on it takes a fraction of any length, of which it keeps six
\* digits, and 'Z'.
FromIsoFormatAccepts(py, t) ==
    /\ t.base = "valid"
    /\ IF py = "3.7"
       THEN Len(t.frac) \in {0, 3, 6} /\ t.offset \in IsoOffsets \cup {""}
       ELSE t.offset \in IsoOffsets \cup {"", "Z"}

\* datetime.fromisoformat(t): an aware or naive datetime, or ValueError.
FromIsoFormat(py, t) ==
    IF FromIsoFormatAccepts(py, t)
    THEN [kind |-> "datetime", microsecond |-> Microsecond(t.frac),
          utcoffset |-> IF t.offset = "Z" THEN "+00:00" ELSE t.offset]
    ELSE ValueError

\* date_string.replace('Z', '+00:00') of a string that ends with 'Z'.
ReplaceZ(d) == IF d.offset = "Z" THEN [d EXCEPT !.offset = "+00:00"] ELSE d

\* re.match of the pattern: the date-time shape, a '.', six digits or more.
\* The pattern is not anchored at the end of the string.
PatternMatches(d) == d.base \in {"valid", "invalid"} /\ Len(d.frac) >= 6

\* Mutant of Microseconds: every digit of the fraction is kept.
MicrosecondsKeepAll(frac) == frac

\* match.group(2): the six digits `(\d{6})`; `\d*` takes the others.
Microseconds(frac) == SubSeq(frac, 1, 6)

\* match.group(3) or '', with 'Z' turned into '+00:00': text that is not
\* `[+-]\d{2}:\d{2}|Z` leaves the optional group empty.
Timezone(d) ==
    IF d.offset = "Z" THEN "+00:00"
    ELSE IF d.offset \in IsoOffsets THEN d.offset
    ELSE ""

\* fixed_date = f"{base_time}.{microseconds}{timezone}"
FixedDate(d) == Text(d.base, Microseconds(d.frac), Timezone(d))

\* The fallback of emby_exporter_fixed.py for a string with a '.': the part
\* before the '.', then '+' and what follows a '+', or '+00:00' for a 'Z', or
\* nothing.
Fallback(d) ==
    Text(d.base, << >>,
         IF d.offset \in {"+00:00", "+05:30"} THEN d.offset
         ELSE IF d.offset = "Z" THEN "+00:00"
         ELSE "")

\* `except Exception: return None` around the second stage.
OrNone(r) == IF r.kind = "datetime" THEN r ELSE None

\* The handler of ValueError: the pattern, then in the fixed script the
\* fallback, then None.
AfterValueError(v, py, d) ==
    IF PatternMatches(d) THEN OrNone(FromIsoFormat(py, FixedDate(d)))
    ELSE IF v = "fixed" /\ d.frac # << >>
    THEN OrNone(FromIsoFormat(py, Fallback(d)))
    ELSE None

\* parse_emby_datetime(date_string).  date_string.endswith of a value that is
\* not a string raises AttributeError, which `except ValueError` lets pass.
ParseEmbyDatetime(v, py, d) ==
    IF d.type \in {"None", "empty"} THEN None
    ELSE IF d.type # "str" THEN AttributeError
    ELSE LET first == FromIsoFormat(py, ReplaceZ(d))
         IN  IF first # ValueError THEN first ELSE AfterValueError(v, py, d)

InitParse ==
    /\ pc = "parse"
    /\ now = 0
    /\ variant \in ParseVariants
    /\ sessions = NoSessions
    /\ channel_watch_start = Empty
    /\ last_channel_switch = Empty
    /\ InitMetrics
    /\ InitHistory
    /\ EpgIdle
    /\ in_progress = 0
    /\ StartedIs(TRUE)
    /\ ScrapeIdle
    /\ InitStats
    /\ date_string \in DateStrings
    /\ python \in Pythons
    /\ parsed = NotParsed

\* One call of parse_emby_datetime.
Parse ==
    /\ pc = "parse"
    /\ parsed' = ParseEmbyDatetime(variant, python, date_string)
    /\ pc' = "parsed"
    /\ UNCHANGED << epgVars, scrapeVars, session_bandwidth, tunerVars,
                    date_string, python, startVars, in_progress, now,
                    sessionVars, server_up, reqVars, executed, raised,
                    got_malformed, prev_obs >>

ParseSpec == InitParse /\ [][Parse]_vars

-----------------------------------------------------------------------------
(* collect_tuners of emby_livetv_ultimate.py *)

\* TunerSpec: no cycle starts after this time.
MaxTunerTime == 30

\* The longest list of tuners.
MaxTuners == 2

TunerIds == <<"t1", "t2", "t3">>

\* The tuner lists of every shape: no channel id, an empty one or a channel
\* id, and no status, 'LiveTv' or another status.
TunerLists ==
    UNION {[1..n -> {"None", "", "ch1"} \X {"None", "LiveTv", "Idle"}] :
               n \in 0..MaxTuners}

\* The tuners of a list of shapes, with their ids.
TunersOf(shapes) ==
    [i \in 1..Len(shapes) |-> Tuner(TunerIds[i], shapes[i][1], shapes[i][2])]

AllTuners == {TunersOf(shapes) : shapes \in TunerLists}

InitTuner ==
    /\ pc = "tuners"
    /\ now = 0
    /\ variant = "ultimate"
    /\ sessions = NoSessions
    /\ channel_watch_start = Empty
    /\ last_channel_switch = Empty
    /\ InitMetrics
    /\ InitHistory
    /\ EpgIdle
    /\ in_progress = 1
    /\ StartedIs(TRUE)
    /\ ScrapeIdle
    /\ InitStats
    /\ ParseIdle

\* The rest of the cycle and the sleep: the next call of collect_tuners.
TunerNextPass ==
    /\ pc = "recordings"
    /\ now + SCRAPE_INTERVAL <= MaxTunerTime
    /\ now' = now + SCRAPE_INTERVAL
    /\ pc' = "tuners"
    /\ executed' = {}
    /\ raised' = FALSE
    /\ got_malformed' = FALSE
    /\ UNCHANGED << otherVars, startVars, in_progress, sessionVars, server_up,
                    reqVars, prev_obs >>

CollectTunersAll == CollectTunersOf(AllTuners)

NextTuner ==
    \/ CollectTunersAll
    \/ TunerNextPass

TunerSpec == InitTuner /\ [][NextTuner]_vars

-----------------------------------------------------------------------------
(* Properties *)

\* The rest of collect_sessions runs its loop and its "Set all metrics" block.
SessionsProcessed ==
    pc = "sessions_loop" /\ pc' = "tuners" /\ ~ReturnsEarly(sessions)

\* The live-TV sessions of the list being processed.
LiveItems ==
    {sessions.items[i] : i \in {j \in 1..Len(sessions.items) : IsLiveTv(sessions.items[j])}}

RECURSIVE SetSum(_)
SetSum(f) ==
    IF DOMAIN f = {} THEN 0
    ELSE LET k == CHOOSE x \in DOMAIN f : TRUE
         IN  f[k] + SetSum([x \in (DOMAIN f) \ {k} |-> f[x]])

\* C1 (as claimed): when the /Sessions fetch succeeded with an empty list, the
\* active-streams, transcode-count and bandwidth-total gauges are 0 when
\* collect_sessions returns.
C1_EmptyListZeroesGauges ==
    [][ (pc = "sessions_loop" /\ pc' = "tuners"
         /\ sessions.kind = "payload" /\ sessions.items = << >>)
        => (streams_active' = 0 /\ transcoding_active' = 0
            /\ stream_bandwidth_total' = 0) ]_vars

\* C2 (as claimed): in a cycle whose responses are all successes, 404s or
\* failures, all six collectors have been executed when the cycle ends.
C2_AllCollectorsRun ==
    (pc = "sleep" /\ ~got_malformed) => executed = Collectors

\* C3: no exception ends the process, every cycle returns to the loop and the
\* loop starts a next cycle, again and again.
C3_LoopKeepsRunning ==
    /\ [](pc # "crashed")
    /\ []<>(pc = "sleep")
    /\ []<>(pc = "server_info")

\* C3 witness: a cycle after the first one in which a collector raised has
\* returned to the loop.
C3_Witness == pc = "sleep" /\ raised /\ now > 0

\* C4: a cycle in which a collector raised ends with emby_up = 0, and the
\* next cycle is started afterwards.
C4_FailedCycleMarksDown ==
    /\ []((pc = "sleep" /\ raised) => server_up = 0)
    /\ ((pc = "handler") ~> (pc = "server_info"))

\* C4 witness: a collector after collect_server_info raised while emby_up is 1
\* (so collect_server_info set it to 1 in this cycle).
C4_Witness == pc = "handler" /\ server_up = 1 /\ "recordings" \in executed

\* C5 (as claimed): in every script, a call answered with status 404 returns
\* None and leaves the error counters as they were.
C5_NotFoundIsNoError ==
    [][ (last_call'.n # last_call.n /\ last_call'.resp = "notfound")
        => (last_call'.value = "none" /\ api_error_count' = api_error_count) ]_vars

SeriesKeys == Users \X Channels \X SessionIds

\* C6 (as claimed): a bitrate series whose session is no longer observed does
\* not stay exposed forever.
C6_StaleSeriesRemoved ==
    \A k \in SeriesKeys :
        []<>(k \notin DOMAIN stream_bitrate \/ k[3] \in DOMAIN cur_obs)

\* What one pass of collect_sessions must add to the counter of (u, c): for
\* every listed live session of u on c whose anchor is on c, the time since
\* the anchor's start.
WatchTimeDue(u, c) ==
    LET due == {s \in LiveItems : /\ s.UserName = u /\ s.Name = c
                                  /\ s.Id \in DOMAIN channel_watch_start
                                  /\ channel_watch_start[s.Id].channel = c}
    IN  SetSum([s \in due |-> now - channel_watch_start[s.Id].start_time])

\* C7: the first observation of a session id creates the anchor (user, channel,
\* time of that cycle) and adds nothing; a later cycle on the anchor's channel
\* adds exactly the time since the anchor's start to the counter of (user,
\* channel); and an anchor, once stored, is never changed.
C7_WatchTimeAccrual ==
    [][ /\ \A id \in DOMAIN channel_watch_start :
             /\ id \in DOMAIN channel_watch_start'
             /\ channel_watch_start'[id] = channel_watch_start[id]
        /\ SessionsProcessed =>
             /\ \A s \in LiveItems :
                  s.Id \notin DOMAIN channel_watch_start =>
                      channel_watch_start'[s.Id] =
                          [user |-> s.UserName, channel |-> s.Name, start_time |-> now]
             /\ \A u \in Users, c \in Channels :
                  Lookup(user_watch_time', <<u, c>>) =
                      Lookup(user_watch_time, <<u, c>>) + WatchTimeDue(u, c)
      ]_vars

\* C7 witness: a session first seen at time 0 has been seen on the same channel
\* in the two following cycles, and watch time was counted.
C7_Witness ==
    \E id \in DOMAIN cur_obs :
        /\ id \in DOMAIN prev_obs
        /\ channel_watch_start[id].start_time = 0
        /\ channel_watch_start[id].channel = cur_obs[id].channel
        /\ prev_obs[id].channel = cur_obs[id].channel
        /\ prev_obs[id].at > 0
        /\ cur_obs[id].at > prev_obs[id].at
        /\ Lookup(user_watch_time, <<cur_obs[id].user, cur_obs[id].channel>>) > 0

\* Session id was first seen two cycles ago, has been on the same channel for
\* the three cycles, which are SCRAPE_INTERVAL apart, and no other session id
\* was ever first seen on that channel.
ThreeCyclesOnOneChannel(id) ==
    /\ id \in DOMAIN cur_obs
    /\ id \in DOMAIN prev_obs
    /\ LET a == channel_watch_start[id]
           p == prev_obs[id]
           c == cur_obs[id]
       IN  /\ c.at = now
           /\ p.at + SCRAPE_INTERVAL = c.at
           /\ a.start_time + SCRAPE_INTERVAL = p.at
           /\ a.channel = p.channel /\ p.channel = c.channel
           /\ a.user = p.user /\ p.user = c.user
           /\ \A o \in (DOMAIN channel_watch_start) \ {id} :
                  channel_watch_start[o].channel # a.channel

\* C8: the watch-time counters never decrease, and after three cycles 30 s
\* apart of one session on one channel the counter of (user, channel) is 90.
C8_ThreeCyclesTotal ==
    /\ [](\A id \in SessionIds :
            ThreeCyclesOnOneChannel(id) =>
                Lookup(user_watch_time, <<cur_obs[id].user, cur_obs[id].channel>>)
                    = 3 * SCRAPE_INTERVAL)
    /\ [][\A k \in DOMAIN user_watch_time :
             k \in DOMAIN user_watch_time' /\ user_watch_time'[k] >= user_watch_time[k]]_vars

\* C8 witness: the third cycle of such a session has been collected.
C8_Witness == \E id \in SessionIds : ThreeCyclesOnOneChannel(id)

\* C9 (as claimed): a session whose anchor is on another channel than the one
\* it is now observed on gets a new anchor, on the new channel, starting at
\* the time of this cycle.
C9_SwitchStartsNewAnchor ==
    [][ SessionsProcessed =>
          \A s \in LiveItems :
              (s.Id \in DOMAIN channel_watch_start
               /\ channel_watch_start[s.Id].channel # s.Name)
              => /\ channel_watch_start'[s.Id].channel = s.Name
                 /\ channel_watch_start'[s.Id].start_time = now ]_vars

\* The listed sessions of user u that are on another channel than in the
\* previous cycle.
SwitchedSessions(u) ==
    {s \in LiveItems : /\ s.UserName = u
                       /\ s.Id \in DOMAIN prev_obs
                       /\ prev_obs[s.Id].channel # s.Name}

\* C10 (as claimed): in a cycle in which sessions of a user are on another
\* channel than in the previous cycle, the user's channel-switch counter grows
\* by 1 for each of them.
C10_SwitchCountedOnce ==
    [][ SessionsProcessed =>
          \A u \in Users :
              SwitchedSessions(u) # {} =>
                  Lookup(user_channel_switches', u) =
                      Lookup(user_channel_switches, u) + Cardinality(SwitchedSessions(u)) ]_vars

\* The days on which the probe's request did not return programs.
ProbeStops == {d \in DOMAIN epg_requests : epg_requests[d] # "programs"}

\* C11: the probe asks for days 1, 2, ... in order and never for more than
\* max_days days; when it is done, either all max_days days returned programs
\* and the gauge is max_days, or it stopped at the first day d that returned
\* no programs or failed, asked for nothing after d, and the gauge is d - 1.
C11_ProbeCountsLeadingDays ==
    /\ \E n \in 0..max_days : DOMAIN epg_requests = 1..n
    /\ pc = "epg_done" =>
         IF ProbeStops = {}
         THEN DOMAIN epg_requests = 1..max_days /\ epg_days_available = max_days
         ELSE \E d \in 1..max_days :
                  /\ ProbeStops = {d}
                  /\ DOMAIN epg_requests = 1..d
                  /\ epg_days_available = d - 1

\* C11 witness: days 1-3 have programs, day 4 is empty: 3 after 4 requests.
C11_Witness ==
    /\ pc = "epg_done"
    /\ DOMAIN epg_requests = 1..4
    /\ \A d \in 1..3 : epg_requests[d] = "programs"
    /\ epg_requests[4] = "empty"
    /\ epg_days_available = 3

\* C12: at most one call of collect_all_metrics is in progress, and a call
\* begins only when none is in progress, that is after the previous call has
\* returned.
C12_CyclesNeverOverlap ==
    /\ [](in_progress \in {0, 1})
    /\ [][in_progress' > in_progress => in_progress = 0]_vars
    /\ [](pc \in {"server_info", "channels", "sessions", "sessions_loop",
                  "tuners", "recordings", "epg", "handler"} => in_progress = 1)

\* C12 witness: a second cycle is in progress, after the first has returned.
C12_Witness == pc = "sessions" /\ now > 0 /\ in_progress = 1

\* C13 (as claimed): a scrape made after a cycle has completed returns the
\* values the most recent completed cycle left.
C13_ScrapeSeesCompletedCycle ==
    (scraped.taken /\ scraped.expected.n >= 1) =>
        /\ scraped.streams = scraped.expected.streams
        /\ scraped.bw = scraped.expected.bw
        /\ scraped.trans = scraped.expected.trans

\* C14: with an empty credential main exits with status 1, and the exposition
\* server is never started, no exporter is created, and no cycle and no API
\* request is run.
C14_MissingCredentialExits ==
    api_key = "" =>
        /\ pc \in {"main", "exited"}
        /\ pc = "exited" => exit_code = 1
        /\ ~http_server_started
        /\ ~exporter_created
        /\ in_progress = 0
        /\ last_call.n = 0

\* C14 witness: main has exited for the missing credential.
C14_Witness == api_key = "" /\ pc = "exited" /\ exit_code = 1

LiveOn(c) == {s \in LiveItems : s.Name = c}

\* C20: a pass of collect_sessions adds to each channel's score the number of
\* live-TV sessions listed on it, and no score ever shrinks; afterwards the
\* gauge of every channel with a score is 100 * score / (highest score), which
\* lies in 0..100 and is 100 for a channel with the highest score.
C20_PopularityScores ==
    /\ [][\A c \in DOMAIN channel_popularity_scores :
             /\ c \in DOMAIN channel_popularity_scores'
             /\ channel_popularity_scores'[c] >= channel_popularity_scores[c]]_vars
    /\ [][SessionsProcessed =>
            LET scores == channel_popularity_scores' IN
            /\ \A c \in Channels \cup {"Movie"} :
                 Lookup(scores, c) =
                     Lookup(channel_popularity_scores, c) + Cardinality(LiveOn(c))
            /\ DOMAIN popular_channels' = DOMAIN scores
            /\ \A c \in DOMAIN scores :
                 LET g == popular_channels'[c]
                     highest == MaxOf({scores[x] : x \in DOMAIN scores})
                 IN  /\ g.den > 0
                     /\ g.num * highest = 100 * scores[c] * g.den
                     /\ 0 <= g.num /\ g.num <= 100 * g.den
                     /\ scores[c] = highest => g.num = 100 * g.den]_vars

\* C20 witness: two channels have scores, one below the other, and the gauge
\* of the lower one is below 100.
C20_Witness ==
    \E c \in DOMAIN channel_popularity_scores, d \in DOMAIN channel_popularity_scores :
        /\ channel_popularity_scores[c] < channel_popularity_scores[d]
        /\ c \in DOMAIN popular_channels
        /\ popular_channels[c].num > 0
        /\ popular_channels[c].num < 100 * popular_channels[c].den

\* A pass of collect_sessions on a list that /Sessions returned.
ListProcessed ==
    pc = "sessions_loop" /\ pc' = "tuners" /\ sessions.kind = "payload"

\* The sessions of the list being processed.
Items == {sessions.items[i] : i \in 1..Len(sessions.items)}

Buckets == {"4K", "1080p", "720p", "480p", "SD"}

\* C15 (as claimed): in the ultimate script every live-TV session with
\* transcoding info is counted in the bucket of its height, "SD" for every
\* height below 480, 0 and a missing height included.  (Checked on passes
\* that start with no bucket set, so that the gauge shows the pass's counts.)
C15_EverySessionInOneBucket ==
    [][ (ListProcessed /\ variant = "ultimate" /\ ~ReturnsEarly(sessions)
         /\ streams_by_quality = Empty)
        => \A b \in Buckets :
              Lookup(streams_by_quality', b) =
                  Cardinality({s \in LiveItems : /\ s.HasTranscodingInfo
                                                 /\ QualityOf(HeightOf(s)) = b}) ]_vars

\* C16 (as claimed): the transcode count published by a pass equals the
\* number of sessions of the list whose play method is 'Transcode'.
C16_TranscodeCountIsExact ==
    [][ ListProcessed =>
          transcoding_active' =
              Cardinality({s \in Items : PlayMethodOf(s) = "Transcode"}) ]_vars

\* Whether the session carries any bandwidth information.
HasBandwidthInfo(s) ==
    \/ s.HasBandwidth /\ s.Bandwidth > 0
    \/ s.HasTranscodingInfo /\ s.Bitrate > 0

\* The per-session series of a session after the pass, if it exists.
SeriesSet(s) ==
    IF variant = "ultimate"
    THEN <<s.UserName, s.Name, s.Id>> \in DOMAIN stream_bitrate'
    ELSE SeriesOf(s) \in DOMAIN session_bandwidth'

SeriesValue(s) ==
    IF variant = "ultimate"
    THEN stream_bitrate'[<<s.UserName, s.Name, s.Id>>]
    ELSE session_bandwidth'[SeriesOf(s)]

\* C17 (as claimed): a pass sets the per-session series of every streaming
\* session of the list, to 0 when the session has no bandwidth information.
C17_EverySeriesSet ==
    [][ ListProcessed =>
          \A s \in Items :
              IsStreaming(s) =>
                  /\ SeriesSet(s)
                  /\ ~HasBandwidthInfo(s) => SeriesValue(s) = 0 ]_vars

\* The bandwidth of a session as the claim defines it.
ClaimedBandwidth(s) ==
    CASE s.HasBandwidth -> s.Bandwidth
      [] ~s.HasBandwidth /\ s.HasTranscodingInfo -> s.Bitrate
      [] OTHER -> 0

\* C18: in the debug script the series of every streaming session of the list
\* is set to its Bandwidth field if it has one, else to its transcoding
\* bitrate, else to 0, and the total-bandwidth gauge is the sum of these.
C18_DebugBandwidth ==
    [][ (ListProcessed /\ variant = "debug") =>
          LET streaming == {s \in Items : IsStreaming(s)} IN
          /\ \A s \in streaming :
               /\ SeriesOf(s) \in DOMAIN session_bandwidth'
               /\ session_bandwidth'[SeriesOf(s)] = ClaimedBandwidth(s)
          /\ stream_bandwidth_total' =
               SetSum([s \in streaming |-> session_bandwidth'[SeriesOf(s)]]) ]_vars

\* C18 witness: a session with only a transcoding bitrate and one with a
\* Bandwidth field were collected, and the total is their sum.
C18_Witness ==
    /\ variant = "debug"
    /\ pc = "tuners"
    /\ <<"s1", "alice">> \in DOMAIN session_bandwidth
    /\ <<"s2", "bob">> \in DOMAIN session_bandwidth
    /\ session_bandwidth[<<"s1", "alice">>] = 5000000
    /\ session_bandwidth[<<"s2", "bob">>] = 3000000
    /\ stream_bandwidth_total = 8000000

\* A timestamp of a valid date-time, a fraction of 7 digits or more and an
\* offset: numeric, or 'Z'.
LongFraction(d) ==
    /\ d.type = "str"
    /\ d.base = "valid"
    /\ Len(d.frac) >= 7
    /\ d.offset \in {"+00:00", "+05:30", "-05:00", "Z"}

\* C21: for a timestamp with a fraction of 7 digits or more and a valid
\* offset, parse_emby_datetime of the fixed and ultimate scripts returns the
\* instant whose microsecond is the first six digits of the fraction (nothing
\* is rounded up) and whose offset is the one of the string, 'Z' being +00:00.
C21_FractionTruncated ==
    (pc = "parsed" /\ variant \in {"fixed", "ultimate"} /\ LongFraction(date_string))
    => /\ parsed.kind = "datetime"
       /\ parsed.microsecond =
            date_string.frac[1] * 100000 + date_string.frac[2] * 10000
            + date_string.frac[3] * 1000 + date_string.frac[4] * 100
            + date_string.frac[5] * 10 + date_string.frac[6]
       /\ parsed.utcoffset =
            IF date_string.offset = "Z" THEN "+00:00" ELSE date_string.offset

\* C21 witness: 2025-07-20T01:16:29.9999999-05:00, which rounding would carry
\* into the next second, was parsed by the pattern to microsecond 999999.
C21_Witness ==
    /\ pc = "parsed"
    /\ variant = "fixed"
    /\ python = "3.7"
    /\ date_string = Text("valid", <<9, 9, 9, 9, 9, 9, 9>>, "-05:00")
    /\ parsed.kind = "datetime"
    /\ parsed.microsecond = 999999
    /\ parsed.utcoffset = "-05:00"

\* An argument that is no timestamp: None, the empty string, a value that is
\* not a string, a string that names no date-time, or a timestamp followed by
\* text that is no offset.
Malformed(d) == d.type # "str" \/ d.base # "valid" \/ d.offset = "UTC"

\* C22 (as claimed): for an empty, null or malformed argument,
\* parse_emby_datetime of the fixed and livetv scripts returns None and
\* raises nothing.
C22_MalformedGivesNone ==
    (pc = "parsed" /\ variant \in {"fixed", "livetv"} /\ Malformed(date_string))
    => parsed = None

\* The outcomes in which a call of _make_request fails: a status other than
\* 2xx and 404, a timeout or a transport failure.
CallFails(resp) == resp \in {"httperror", "transport"}

\* C23 (as claimed): a call of _make_request of the fixed, livetv and debug
\* scripts records exactly one latency observation for its endpoint whatever
\* the outcome, and increments the endpoint's error counter by one exactly
\* when the call fails.
C23_OneObservationPerCall ==
    [][ (variant \in {"fixed", "livetv", "debug"} /\ last_call'.n = last_call.n + 1)
        => /\ Lookup(api_latency_count', last_call'.endpoint) =
                Lookup(api_latency_count, last_call'.endpoint) + 1
           /\ Lookup(api_error_count', last_call'.endpoint) =
                Lookup(api_error_count, last_call'.endpoint)
                + (IF CallFails(last_call'.resp) THEN 1 ELSE 0) ]_vars

\* C24 (as claimed): the watch time credited on behalf of a session never
\* exceeds the time elapsed since its first observation.  While one session id
\* only was ever seen on live TV, every second of the watch-time counter was
\* credited on its behalf.
C24_CreditWithinElapsed ==
    \A id \in SessionIds :
        DOMAIN channel_watch_start = {id}
        => SetSum(user_watch_time) <= now - channel_watch_start[id].start_time

\* C25 (as claimed): after a cycle in which the sessions were collected,
\* channel_watch_start has entries only for the session ids that were live-TV
\* sessions of that cycle's snapshot.
C25_VanishedAnchorsRemoved ==
    [][ SessionsProcessed
        => DOMAIN channel_watch_start' \subseteq {s.Id : s \in LiveItems} ]_vars

\* Every listed live-TV session of user u was observed in the previous cycle,
\* for the same user and on the same channel.
NothingChangedFor(u) ==
    \A s \in LiveItems :
        s.UserName = u
        => /\ s.Id \in DOMAIN prev_obs
           /\ prev_obs[s.Id].user = u
           /\ prev_obs[s.Id].channel = s.Name

\* C26 (as claimed): the channel-switch counter of a user does not grow in a
\* cycle in which none of the user's sessions changed channel since the
\* previous cycle, also when the user has two sessions on two channels.
C26_NoSwitchWithoutChange ==
    [][ SessionsProcessed
        => \A u \in Users :
              NothingChangedFor(u)
              => Lookup(user_channel_switches', u) =
                     Lookup(user_channel_switches, u) ]_vars

\* C27 (as claimed): after a cycle in which the sessions were collected, the
\* streams-by-method gauge summed over all its exposed labels equals the
\* active-streams gauge, and the streams-by-quality gauge summed over all its
\* exposed labels does not exceed it.
C27_DistributionsAddUp ==
    [][ SessionsProcessed
        => /\ SetSum(streams_by_method') = streams_active'
           /\ SetSum(streams_by_quality') <= streams_active' ]_vars

\* C28 (as claimed): the prime-time usage gauge lies between 0 and 100.
C28_PrimeTimeIsPercentage ==
    /\ prime_time_usage.num >= 0
    /\ prime_time_usage.num <= 100 * prime_time_usage.den

\* C29 (as claimed): in every state a scrape can observe, the
\* peak-concurrent-streams gauge is at least the active-streams gauge.
C29_PeakCoversActive ==
    http_server_started => peak_concurrent_streams >= streams_active

\* The tuners of a list that have a channel id or the status 'LiveTv'.
TunersInUse(list) ==
    {i \in 1..Len(list) :
        list[i].ChannelId \notin {"None", ""} \/ list[i].Status = "LiveTv"}

\* C30: at the end of a call of collect_tuners, whatever /LiveTv/Tuners gave:
\* available + in use = total, the tuners in use are those with a channel id
\* or the status 'LiveTv', and the utilization is 100 * in_use / total, or 0
\* when there is no tuner.
C30_TunerCounts ==
    [][ (pc = "tuners" /\ pc' = "recordings")
        => LET tuners == tuners_seen'
           IN  /\ tuners_available' + tuners_in_use' = tuners_total'
               /\ tuners_total' = Len(tuners)
               /\ tuners_in_use' = Cardinality(TunersInUse(tuners))
               /\ IF Len(tuners) > 0
                  THEN tuner_utilization'.num * Len(tuners) =
                         100 * Cardinality(TunersInUse(tuners)) * tuner_utilization'.den
                  ELSE tuner_utilization'.num = 0 ]_vars

\* C30 witness: of two tuners one was in use by its status alone, without a
\* channel id, and the other free: 1 + 1 = 2 and a utilization of 50.
C30_Witness ==
    /\ pc = "recordings"
    /\ tuners_seen = <<Tuner("t1", "None", "LiveTv"), Tuner("t2", "", "Idle")>>
    /\ tuners_total = 2
    /\ tuners_in_use = 1
    /\ tuners_available = 1
    /\ tuner_utilization = Percent(100, 2)
    /\ <<"t1", "Unknown">> \in DOMAIN tuner_status
    /\ tuner_status[<<"t1", "Unknown">>] = 1
    /\ <<"t2", "None">> \in DOMAIN tuner_status

=============================================================================
